---- MODULE Spec2Model ----
(***************************************************************************)
(* A model of the Lift subsystem (src/src/robot/lift.py): its fields, its  *)
(* lifecycle operations (construct, load_parameters, dispose) and its      *)
(* per-tick operations (read_sensors, reset_sensors, reset_and_start_timer,*)
(* set_robot_state, set_log_state), together with the hardware and the     *)
(* clock they act on.                                                      *)
(*                                                                         *)
(* Real-valued parameters (ratios, directions, seconds) are held in        *)
(* hundredths: 1.0 is 100, 0.5 is 50, 0.1 is 10.                           *)
(***************************************************************************)
EXTENDS Integers, FiniteSets, Sequences, TLC

VARIABLES
    lift,        \* the fields of the Lift instance
    stopwatch,   \* the state of the Stopwatch object _movement_timer refers to
    hw_count,    \* the tick count held by the encoder hardware
    now,         \* the clock the stopwatch reads
    status,      \* "constructed" or "aborted" (the constructor raised)
    last,        \* the most recent call: its name, argument, outcome
    unwired,     \* the instance was constructed from a file that wires no
                 \* channel, and load_parameters has not been called since
    with_logger, \* the constructor of the instance created a logger
    policy,      \* the most recent evaluation of the staged-speed policy
    robot        \* the fields of MyRobot, its place in its loops, and the
                 \* field and operator station it reads

vars == <<lift, stopwatch, hw_count, now, status, last, unwired, with_logger,
          policy, robot>>

\* The variables of the Lift and of its hardware and clock.
liftVars == <<lift, stopwatch, hw_count, now, status, last, unwired, with_logger>>

\* ------------------------------------------------------------------ bounds

\* The clock runs from 0 to MaxTime.
MaxTime == 2

\* The encoder hardware counts from 0 to MaxCount.
MaxCount == 1

\* ------------------------------------------------------------- vocabulary

None == "None"

ProgramState == {"DISABLED", "TELEOP", "AUTONOMOUS"}

\* An attribute that load_parameters creates and that does not exist yet.
NoAttribute == 0 - 1

\* ------------------------------------------------- the parameter file

\* The wiring a parameter file can describe: encoder a slot, a channel,
\* b slot, b channel and the motor channel; a negative id is "not wired".
ChannelProfiles ==
    { <<0 - 1, 0 - 1, 0 - 1, 0 - 1, 0 - 1>>,   \* nothing wired
      <<0, 1, 0, 2, 3>>,                       \* encoder and motor
      <<0, 1, 0, 2, 0 - 1>>,                   \* encoder only
      <<0, 1, 0 - 1, 2, 3>> }                  \* motor, encoder b slot missing

\* The thresholds a parameter file can hold: encoder near, medium, far and
\* time near, medium, far.
OrderedThresholds == <<20, 60, 120, 20, 60, 120>>

\* Thresholds out of order: on the encoder axis, and on the time axis.
MisorderedThresholds ==
    { <<60, 20, 120, 20, 60, 120>>,
      <<20, 60, 120, 20, 120, 60>> }

\* What parameters.Parameters(file) and its get_value return for the file as
\* it is when load_parameters runs.
ParameterFile(found, ch, th) ==
    [ found |-> found,
      ENCODER_A_SLOT |-> ch[1],
      ENCODER_A_CHANNEL |-> ch[2],
      ENCODER_B_SLOT |-> ch[3],
      ENCODER_B_CHANNEL |-> ch[4],
      ENCODER_REVERSE |-> 0,
      ENCODER_TYPE |-> 2,
      LIFT_MOTOR_CHANNEL |-> ch[5],
      UP_DIRECTION |-> 100,
      DOWN_DIRECTION |-> 0 - 100,
      UP_SPEED_RATIO |-> 80,
      DOWN_SPEED_RATIO |-> 60,
      AUTO_FAR_SPEED_RATIO |-> 90,
      AUTO_MEDIUM_SPEED_RATIO |-> 70,
      AUTO_NEAR_SPEED_RATIO |-> 40,
      ENCODER_THRESHOLD |-> th[1],
      AUTO_MEDIUM_ENCODER_THRESHOLD |-> th[2],
      AUTO_FAR_ENCODER_THRESHOLD |-> th[3],
      ENCODER_MAX_LIMIT |-> 5000,
      ENCODER_MIN_LIMIT |-> 100,
      TIME_THRESHOLD |-> th[4],
      AUTO_MEDIUM_TIME_THRESHOLD |-> th[5],
      AUTO_FAR_TIME_THRESHOLD |-> th[6] ]

\* The files load_parameters may meet: every wiring with ordered thresholds,
\* a fully wired file with each misordered set, and a file for which the
\* Parameters object is falsy.
ParameterFiles ==
    { ParameterFile(TRUE, ch, OrderedThresholds) : ch \in ChannelProfiles }
    \cup { ParameterFile(TRUE, <<0, 1, 0, 2, 3>>, th) : th \in MisorderedThresholds }
    \cup { ParameterFile(FALSE, <<0, 1, 0, 2, 3>>, OrderedThresholds) }

\* ------------------------------------------------------------- Stopwatch

\* A stopwatch as constructed: stopped, nothing elapsed.
NewStopwatch == [ running |-> FALSE, start |-> 0, secs |-> 0 ]

\* start(): a stopped stopwatch begins a new run at the current time; a
\* running one keeps its run.
StopwatchStart(w, t) ==
    IF w.running THEN w
    ELSE [ running |-> TRUE, start |-> t, secs |-> 0 ]

\* stop(): a running stopwatch stops and keeps the time of its run; a
\* stopped one is left alone.
StopwatchStop(w, t) ==
    IF w.running THEN [ w EXCEPT !.running = FALSE, !.secs = t - w.start ]
    ELSE w

\* The elapsed time the stopwatch reports at time t.
StopwatchElapsed(w, t) ==
    IF w.running THEN t - w.start ELSE w.secs

\* ------------------------------------------------------------------ Lift

\* The fields after the assignments of _initialize, before logging is set up.
InitialFields(params) ==
    [ encoder_enabled |-> FALSE,
      lift_enabled |-> FALSE,
      _log |-> None,
      _parameters |-> None,
      _encoder |-> None,
      _lift_controller |-> None,
      _movement_timer |-> None,
      _encoder_threshold |-> 10,
      _auto_medium_encoder_threshold |-> 50,
      _auto_far_encoder_threshold |-> 100,
      _encoder_max_limit |-> 10000,
      _encoder_min_limit |-> 0,
      _time_threshold |-> 10,
      _auto_medium_time_threshold |-> 50,
      _auto_far_time_threshold |-> 100,
      _auto_far_speed_ratio |-> 100,
      _auto_medium_speed_ratio |-> 100,
      _auto_near_speed_ratio |-> 100,
      _up_direction |-> 10,
      _down_direction |-> 10,
      _up_speed_ratio |-> 100,
      _down_speed_ratio |-> 100,
      _normal_up_speed_ratio |-> NoAttribute,
      _normal_down_speed_ratio |-> NoAttribute,
      _encoder_count |-> 0,
      _ignore_encoder_limits |-> FALSE,
      _log_enabled |-> FALSE,
      _robot_state |-> "DISABLED",
      _parameters_file |-> None ]

\* The channel ids load_parameters holds in its locals once the file is read.
LoadedChannels(f) ==
    IF f.found
    THEN [ encoder_a_slot |-> f.ENCODER_A_SLOT,
           encoder_a_channel |-> f.ENCODER_A_CHANNEL,
           encoder_b_slot |-> f.ENCODER_B_SLOT,
           encoder_b_channel |-> f.ENCODER_B_CHANNEL,
           lift_motor_channel |-> f.LIFT_MOTOR_CHANNEL ]
    ELSE [ encoder_a_slot |-> 0 - 1,
           encoder_a_channel |-> 0 - 1,
           encoder_b_slot |-> 0 - 1,
           encoder_b_channel |-> 0 - 1,
           lift_motor_channel |-> 0 - 1 ]

\* Whether load_parameters constructs an encoder for these channel ids.
EncoderWired(c) ==
    /\ c.encoder_a_slot >= 0
    /\ c.encoder_a_channel >= 0
    /\ c.encoder_b_slot >= 0
    /\ c.encoder_b_channel >= 0

\* Whether load_parameters constructs a motor controller.
MotorWired(c) == c.lift_motor_channel >= 0

\* The fields load_parameters stores from the file.
StoreParameters(s, f) ==
    IF f.found
    THEN [ s EXCEPT
             !._up_direction = f.UP_DIRECTION,
             !._down_direction = f.DOWN_DIRECTION,
             !._normal_up_speed_ratio = f.UP_SPEED_RATIO,
             !._normal_down_speed_ratio = f.DOWN_SPEED_RATIO,
             !._auto_far_speed_ratio = f.AUTO_FAR_SPEED_RATIO,
             !._auto_medium_speed_ratio = f.AUTO_MEDIUM_SPEED_RATIO,
             !._auto_near_speed_ratio = f.AUTO_NEAR_SPEED_RATIO,
             !._encoder_threshold = f.ENCODER_THRESHOLD,
             !._encoder_max_limit = f.ENCODER_MAX_LIMIT,
             !._encoder_min_limit = f.ENCODER_MIN_LIMIT,
             !._time_threshold = f.TIME_THRESHOLD,
             !._auto_medium_time_threshold = f.AUTO_MEDIUM_TIME_THRESHOLD,
             !._auto_far_time_threshold = f.AUTO_FAR_TIME_THRESHOLD,
             !._auto_medium_encoder_threshold = f.AUTO_MEDIUM_ENCODER_THRESHOLD,
             !._auto_far_encoder_threshold = f.AUTO_FAR_ENCODER_THRESHOLD ]
    ELSE s

\* The encoder binding and flag load_parameters leaves.
BindEncoder(s, c) ==
    IF EncoderWired(c)
    THEN [ s EXCEPT !._encoder = "Encoder", !.encoder_enabled = TRUE ]
    ELSE [ s EXCEPT !._encoder = None, !.encoder_enabled = FALSE ]

\* A motor binding made whatever the channel id.
BindMotor_Unchecked(s, c) ==
    [ s EXCEPT !._lift_controller = "Talon", !.lift_enabled = TRUE ]

\* The motor binding and flag load_parameters leaves: the old controller is
\* dropped, and lift_enabled is assigned only when a controller is created.
BindMotor(s, c) ==
    IF MotorWired(c)
    THEN [ s EXCEPT !._lift_controller = "Talon", !.lift_enabled = TRUE ]
    ELSE [ s EXCEPT !._lift_controller = None ]

\* Whether the thresholds of a file are strictly increasing on both axes.
FileOrdered(f) ==
    /\ f.ENCODER_THRESHOLD < f.AUTO_MEDIUM_ENCODER_THRESHOLD
    /\ f.AUTO_MEDIUM_ENCODER_THRESHOLD < f.AUTO_FAR_ENCODER_THRESHOLD
    /\ f.TIME_THRESHOLD < f.AUTO_MEDIUM_TIME_THRESHOLD
    /\ f.AUTO_MEDIUM_TIME_THRESHOLD < f.AUTO_FAR_TIME_THRESHOLD

\* A load_parameters that checks the threshold ordering and keeps the old
\* fields when the file violates it.
load_parameters_Validating(s, f) ==
    IF f.found /\ ~FileOrdered(f)
    THEN s
    ELSE BindMotor(
             BindEncoder(
                 StoreParameters(
                     [ s EXCEPT !._parameters = IF f.found THEN "Parameters" ELSE "EmptyParameters" ],
                     f),
                 LoadedChannels(f)),
             LoadedChannels(f))

\* The fields when load_parameters reaches its logging block.
load_parameters(s, f) ==
    BindMotor(
        BindEncoder(
            StoreParameters(
                [ s EXCEPT !._parameters = IF f.found THEN "Parameters" ELSE "EmptyParameters" ],
                f),
            LoadedChannels(f)),
        LoadedChannels(f))

\* load_parameters calls self._log.debug when _log_enabled; that raises
\* when no logger is present.
LoadRaises(s) == s._log_enabled /\ s._log = None

\* A dispose that forgets the encoder.
dispose_KeepsEncoder(s) ==
    [ s EXCEPT !._log = None,
               !._parameters = None,
               !._lift_controller = None,
               !._movement_timer = None ]

\* A dispose that also puts the operating mode back to DISABLED.
dispose_ResetsState(s) ==
    [ s EXCEPT !._log = None,
               !._parameters = None,
               !._encoder = None,
               !._lift_controller = None,
               !._movement_timer = None,
               !._robot_state = "DISABLED" ]

\* The fields after dispose.
dispose(s) ==
    [ s EXCEPT !._log = None,
               !._parameters = None,
               !._encoder = None,
               !._lift_controller = None,
               !._movement_timer = None ]

\* The fields after set_robot_state(state).
set_robot_state(s, state) == [ s EXCEPT !._robot_state = state ]

\* A set_robot_state that leaves the stopwatch alone.
RobotStateTimer_Untouched(s, w, t) == w

\* The stopwatch after set_robot_state.
RobotStateTimer(s, w, t) ==
    IF s._movement_timer # None THEN StopwatchStop(w, t) ELSE w

\* A set_log_state that does not look for a logger.
set_log_state_Unguarded(s, state) ==
    [ s EXCEPT !._log_enabled = state ]

\* The fields after set_log_state(state).
set_log_state(s, state) ==
    [ s EXCEPT !._log_enabled = (state /\ s._log # None) ]

\* read_sensors and reset_sensors call a method of _encoder when
\* encoder_enabled; the call raises when no encoder is present and reaches
\* the hardware otherwise.
SensorRaises(s) == s.encoder_enabled /\ s._encoder = None

SensorCallsEncoder(s) == s.encoder_enabled /\ s._encoder # None

\* The fields after read_sensors, the encoder holding count.  A call that
\* raises has assigned nothing.
read_sensors(s, count) ==
    IF ~s.encoder_enabled THEN s
    ELSE IF s._encoder = None THEN s
    ELSE [ s EXCEPT !._encoder_count = count ]

\* The fields after reset_sensors: Reset() zeroes the hardware count, and
\* Get() then reads it.  A call that raises has assigned nothing.
reset_sensors(s) ==
    IF ~s.encoder_enabled THEN s
    ELSE IF s._encoder = None THEN s
    ELSE [ s EXCEPT !._encoder_count = 0 ]

\* A reset_and_start_timer that starts without stopping first.
reset_and_start_timer_NoStop(s, w, t) ==
    IF s._movement_timer # None
    THEN StopwatchStart(w, t)
    ELSE w

\* The stopwatch after reset_and_start_timer.
reset_and_start_timer(s, w, t) ==
    IF s._movement_timer # None
    THEN StopwatchStart(StopwatchStop(w, t), t)
    ELSE w

\* ---------------------------------------------- the staged-speed policy

\* The staged-speed policy of the design (autonomous staging): the stage
\* chosen for an encoder delta and an elapsed time, by the first rule that
\* matches, over the thresholds the Lift holds.  The Lift declares and loads
\* the thresholds and ratios; the rules are those of the design document.

\* No evaluation of the policy has been made.
NoEvaluation == [ kind |-> "none" ]

\* The encoder deltas (ticks) and elapsed times (hundredths of a second) the
\* policy is evaluated on: 0, 5, ... MaxPolicyStep * 5 around the smallest
\* thresholds, the larger thresholds, and a value beyond them all.
MaxPolicyStep == 4

PolicyInputs == { 5 * k : k \in 0..MaxPolicyStep } \cup { 50, 60, 100, 120, 150 }

\* A staging that tests the near rule first.
StagedStage_NearFirst(s, encoderDelta, elapsedTime) ==
    IF encoderDelta >= s._encoder_threshold
       \/ elapsedTime < s._time_threshold
    THEN "near"
    ELSE IF encoderDelta >= s._auto_medium_encoder_threshold
            \/ elapsedTime < s._auto_medium_time_threshold
    THEN "medium"
    ELSE IF encoderDelta >= s._auto_far_encoder_threshold
            \/ elapsedTime < s._auto_far_time_threshold
    THEN "far"
    ELSE "at_target"

\* A staging whose rules ask for both the distance and the time condition.
StagedStage_Both(s, encoderDelta, elapsedTime) ==
    IF encoderDelta >= s._auto_far_encoder_threshold
       /\ elapsedTime < s._auto_far_time_threshold
    THEN "far"
    ELSE IF encoderDelta >= s._auto_medium_encoder_threshold
            /\ elapsedTime < s._auto_medium_time_threshold
    THEN "medium"
    ELSE IF encoderDelta >= s._encoder_threshold
            /\ elapsedTime < s._time_threshold
    THEN "near"
    ELSE "at_target"

\* Rules 1 to 4, in order.
StagedStage(s, encoderDelta, elapsedTime) ==
    IF encoderDelta >= s._auto_far_encoder_threshold
       \/ elapsedTime < s._auto_far_time_threshold
    THEN "far"
    ELSE IF encoderDelta >= s._auto_medium_encoder_threshold
            \/ elapsedTime < s._auto_medium_time_threshold
    THEN "medium"
    ELSE IF encoderDelta >= s._encoder_threshold
            \/ elapsedTime < s._time_threshold
    THEN "near"
    ELSE "at_target"

\* The ratio of a stage.
StageRatio(s, stage) ==
    CASE stage = "far" -> s._auto_far_speed_ratio
      [] stage = "medium" -> s._auto_medium_speed_ratio
      [] stage = "near" -> s._auto_near_speed_ratio
      [] OTHER -> 0

\* The evaluation: the inputs, the stage, the ratio and the completion flag.
StagedPolicy(s, encoderDelta, elapsedTime) ==
    [ kind |-> "autonomous",
      delta |-> encoderDelta,
      elapsed |-> elapsedTime,
      stage |-> StagedStage(s, encoderDelta, elapsedTime),
      ratio |-> StageRatio(s, StagedStage(s, encoderDelta, elapsedTime)),
      at_target |-> (StagedStage(s, encoderDelta, elapsedTime) = "at_target") ]

\* ----------------------------------------------------------------- MyRobot

\* The driver-station mode a loop condition tests (IsDisabled, IsAutonomous
\* and IsEnabled, IsOperatorControl and IsEnabled).
FieldModes == { "DISABLED", "AUTONOMOUS", "TELEOP" }

\* Joystick values of the driver's controller: buttons 0 or 1, axes in
\* hundredths.
ButtonValues == { 0, 1 }

LeftYValues == { 0 - 50, 0, 50 }

RightXValues == { 0, 50 }

\* MyRobot before RobotInit: the class attributes, no subsystem objects; the
\* field is disabled and the controls are at rest.  dt_state and ui_state
\* are the modes the drive train and the user interface were last notified
\* of, stored the RIGHTTRIGGER state the user interface last stored, calls
\* the calls on the subsystems made by the last method or loop pass.
RobotAtRest ==
    [ pc |-> "start",
      op |-> "none",
      calls |-> <<>>,
      _drive_train |-> None,
      _user_interface |-> None,
      _driver_alternate |-> FALSE,
      _driver_controls_swap_ratio |-> 100,
      dt_state |-> None,
      ui_state |-> None,
      stored |-> 0,
      field |-> "DISABLED",
      button |-> 0,
      bumper |-> 0,
      left_y |-> 0,
      right_x |-> 0 ]

\* A call on a subsystem, appended to the calls of the running pass.
Called(r, f, a) == [ r EXCEPT !.calls = Append(@, [ f |-> f, a |-> a ]) ]

\* The product of two reals in hundredths.
Times(a, b) ==
    IF a * b >= 0 THEN (a * b) \div 100 ELSE 0 - ((0 - (a * b)) \div 100)

\* _initialize: the defaults, then the drive train and the user interface;
\* each subsystem starts in the Disabled mode with no button stored.
Robot_initialize(r) ==
    [ r EXCEPT !._driver_alternate = FALSE,
               !._driver_controls_swap_ratio = 100,
               !._drive_train = "DriveTrain",
               !._user_interface = "UserInterface",
               !.dt_state = "DISABLED",
               !.ui_state = "DISABLED",
               !.stored = 0 ]

_read_sensors(r) ==
    IF r._drive_train # None THEN Called(r, "read_sensors", <<>>) ELSE r

\* A notification that reaches the drive train only.
_set_robot_state_DriveTrainOnly(r, state) ==
    IF r._drive_train # None
    THEN [ Called(r, "drive_train.set_robot_state", <<state>>)
             EXCEPT !.dt_state = state ]
    ELSE r

_set_robot_state(r, state) ==
    LET a == IF r._drive_train # None
             THEN [ Called(r, "drive_train.set_robot_state", <<state>>)
                      EXCEPT !.dt_state = state ]
             ELSE r
    IN  IF a._user_interface # None
        THEN [ Called(a, "user_interface.set_robot_state", <<state>>)
                 EXCEPT !.ui_state = state ]
        ELSE a

_disabled_init(r) == _read_sensors(_set_robot_state(r, "DISABLED"))

_autonomous_init(r) == _set_robot_state(_read_sensors(r), "AUTONOMOUS")

_operator_control_init(r) == _set_robot_state(r, "TELEOP")

\* One pass of the loop of Disabled: stop the motors, then read the sensors.
DisabledPass(r) ==
    _read_sensors(IF r._drive_train # None
                  THEN Called(r, "drive", <<0, 0>>)
                  ELSE r)

\* One pass of the loop of Autonomous.
AutonomousPass(r) == _read_sensors(r)

_check_alternate_speed_modes(r) ==
    [ r EXCEPT !._driver_alternate = (r.bumper = 1) ]

\* A swap on every pass that sees the button pressed.
_check_swap_drivetrain_request_WhilePressed(r) ==
    IF r.button = 1
    THEN [ r EXCEPT !._driver_controls_swap_ratio = Times(@, 0 - 100) ]
    ELSE r

\* get_button_state is the button's value, button_state_changed compares it
\* with the value stored by the last store_button_states.
_check_swap_drivetrain_request(r) ==
    IF r.button = 1 /\ r.button # r.stored
    THEN [ r EXCEPT !._driver_controls_swap_ratio = Times(@, 0 - 100) ]
    ELSE r

\* The else branch calls the drive train without testing for it.
_control_drive_train(r) ==
    IF r.left_y # 0 \/ r.right_x # 0
    THEN IF r._drive_train # None
         THEN Called(r, "arcade_drive",
                     <<Times(r.left_y, r._driver_controls_swap_ratio),
                       r.right_x>>)
         ELSE r
    ELSE IF r._drive_train # None
         THEN Called(r, "arcade_drive", <<0, 0>>)
         ELSE [ r EXCEPT !.pc = "raised" ]

\* userinterface.store_button_states: the stored states become the current
\* ones (RIGHTTRIGGER belongs to the driver's controller).
store_button_states(r, controller) ==
    IF controller = "DRIVER"
    THEN [ Called(r, "store_button_states", <<controller>>)
             EXCEPT !.stored = r.button ]
    ELSE Called(r, "store_button_states", <<controller>>)

\* One pass of the loop of OperatorControl.
OperatorControlPass(r) ==
    LET a == _read_sensors(r)
    IN  IF a._user_interface # None
        THEN LET b == _control_drive_train(
                         _check_swap_drivetrain_request(
                             _check_alternate_speed_modes(a)))
             IN  IF b.pc = "raised"
                 THEN b
                 ELSE store_button_states(
                          store_button_states(b, "DRIVER"), "SCORING")
        ELSE a

\* ------------------------------------------------------------ operations

\* No parameter file: the placeholder a call other than a load records.
NoFile == [ found |-> FALSE ]

\* The record of a call: its name, its argument, the parameter file it read,
\* whether it returned or raised, the value returned, whether it called the
\* encoder or motor hardware, whether the log file could be opened (of a
\* construction), the stopwatch as the call found it, and whether it
\* repeats the call before it (of a dispose).
Call(op, arg, file, outcome, result, hw) ==
    [ op |-> op, arg |-> arg, file |-> file, outcome |-> outcome,
      result |-> result, hw |-> hw, log_writable |-> TRUE,
      pre_running |-> FALSE, pre_elapsed |-> 0, again |-> FALSE ]

\* The record of a call that may repeat the call before it.
Following(c) == [ c EXCEPT !.again = (last.op = c.op) ]

TimerCall(op, arg, w, t) ==
    [ Call(op, arg, NoFile, "returned", "None", FALSE) EXCEPT
        !.pre_running = w.running,
        !.pre_elapsed = StopwatchElapsed(w, t) ]

\* Lift(params, logging_enabled): _initialize.  FileHandler opens the log
\* file when it is constructed and raises when it cannot; the constructor
\* then stops there.  Otherwise the logger is kept, the stopwatch is created
\* and load_parameters runs.
LoggingFields(s, logging_enabled) ==
    IF logging_enabled
    THEN [ s EXCEPT !._log = "Logger", !._log_enabled = TRUE ]
    ELSE s

ConstructAborts(logging_enabled, log_writable) ==
    logging_enabled /\ ~log_writable

\* The fields the constructor had assigned when FileHandler raised.
AbortedFields(params) ==
    [ InitialFields(params) EXCEPT !._log = "Logger" ]

\* The fields of a Lift whose constructor returned.
ConstructedFields(params, logging_enabled, f) ==
    load_parameters(
        [ LoggingFields(InitialFields(params), logging_enabled)
            EXCEPT !._movement_timer = "Stopwatch",
                   !._parameters_file = params ],
        f)

BoolArg(b) == IF b THEN "True" ELSE "False"

\* Whether a load of file f calls the encoder or motor hardware.
LoadTouchesHardware(f) ==
    EncoderWired(LoadedChannels(f)) \/ MotorWired(LoadedChannels(f))

\* The state a construction leaves, as a predicate on the given values.
Constructed(logging_enabled, log_writable, f, l, st, la, un, wl) ==
    /\ wl = (logging_enabled /\ log_writable)
    /\ IF ConstructAborts(logging_enabled, log_writable)
       THEN /\ l = AbortedFields("lift.par")
            /\ st = "aborted"
            /\ un = FALSE
            /\ la = [ Call("construct", BoolArg(logging_enabled), NoFile,
                           "raised", "None", FALSE)
                      EXCEPT !.log_writable = log_writable ]
       ELSE /\ l = ConstructedFields("lift.par", logging_enabled, f)
            /\ un = ~LoadTouchesHardware(f)
            /\ st = "constructed"
            /\ la = [ Call("construct", BoolArg(logging_enabled), f,
                           "returned", "True", LoadTouchesHardware(f))
                      EXCEPT !.log_writable = log_writable ]

Construct(logging_enabled, log_writable, f) ==
    /\ hw_count' = 0
    /\ now' = now
    /\ stopwatch' = NewStopwatch
    /\ Constructed(logging_enabled, log_writable, f, lift', status', last', unwired',
                   with_logger')
    /\ UNCHANGED <<policy, robot>>

\* load_parameters().  The old encoder is dropped; a new one, if the file
\* wires it, counts from 0 (the count of no encoder is held at 0).  The
\* fields are those assigned before the logging block, also when that
\* block raises.
LoadParameters(f) ==
    /\ status = "constructed"
    /\ lift' = load_parameters(lift, f)
    /\ hw_count' = 0
    /\ last' = Call("load_parameters", "", f,
                    IF LoadRaises(lift) THEN "raised" ELSE "returned",
                    IF LoadRaises(lift) THEN "None" ELSE "True",
                    LoadTouchesHardware(f))
    /\ unwired' = FALSE
    /\ UNCHANGED <<stopwatch, now, status, with_logger, policy, robot>>

\* dispose().  The stopwatch and the encoder are no longer referenced: their
\* state is held at that of a new stopwatch and at 0.
Dispose ==
    /\ status = "constructed"
    /\ lift' = dispose(lift)
    /\ stopwatch' = NewStopwatch
    /\ hw_count' = 0
    /\ last' = Following(Call("dispose", "", NoFile, "returned", "None", FALSE))
    /\ UNCHANGED <<now, status, unwired, with_logger,
                 policy, robot>>

\* set_robot_state(state)
SetRobotState(state) ==
    /\ status = "constructed"
    /\ lift' = set_robot_state(lift, state)
    /\ stopwatch' = RobotStateTimer(lift, stopwatch, now)
    /\ last' = TimerCall("set_robot_state", state, stopwatch, now)
    /\ UNCHANGED <<hw_count, now, status, unwired, with_logger,
                 policy, robot>>

\* set_log_state(state)
SetLogState(state) ==
    /\ status = "constructed"
    /\ lift' = set_log_state(lift, state)
    /\ last' = Call("set_log_state", BoolArg(state),
                    NoFile, "returned", "None", FALSE)
    /\ UNCHANGED <<stopwatch, hw_count, now, status, unwired, with_logger,
                 policy, robot>>

\* read_sensors()
ReadSensors ==
    /\ status = "constructed"
    /\ lift' = read_sensors(lift, hw_count)
    /\ last' = Call("read_sensors", "", NoFile,
                    IF SensorRaises(lift) THEN "raised" ELSE "returned", "None",
                    SensorCallsEncoder(lift))
    /\ UNCHANGED <<stopwatch, hw_count, now, status, unwired, with_logger,
                 policy, robot>>

\* reset_sensors()
ResetSensors ==
    /\ status = "constructed"
    /\ lift' = reset_sensors(lift)
    /\ hw_count' = IF SensorCallsEncoder(lift) THEN 0 ELSE hw_count
    /\ last' = Call("reset_sensors", "", NoFile,
                    IF SensorRaises(lift) THEN "raised" ELSE "returned", "None",
                    SensorCallsEncoder(lift))
    /\ UNCHANGED <<stopwatch, now, status, unwired, with_logger,
                 policy, robot>>

\* reset_and_start_timer()
ResetAndStartTimer ==
    /\ status = "constructed"
    /\ stopwatch' = reset_and_start_timer(lift, stopwatch, now)
    /\ last' = TimerCall("reset_and_start_timer", "", stopwatch, now)
    /\ UNCHANGED <<lift, hw_count, now, status, unwired, with_logger,
                 policy, robot>>

\* The clock advances.
Tick ==
    /\ now < MaxTime
    /\ now' = now + 1
    /\ last' = Call("tick", "", NoFile, "returned", "None", FALSE)
    /\ UNCHANGED <<lift, stopwatch, hw_count, status, unwired, with_logger,
                 policy, robot>>

\* The mechanism moves: a started encoder counts.
EncoderMoves ==
    /\ status = "constructed"
    /\ lift._encoder # None
    /\ \E c \in 0..MaxCount :
         /\ c # hw_count
         /\ hw_count' = c
    /\ last' = Call("encoder_moves", "", NoFile, "returned", "None", FALSE)
    /\ UNCHANGED <<lift, stopwatch, now, status, unwired, with_logger,
                 policy, robot>>

\* The program starts by constructing a Lift.
Init ==
    /\ now = 0
    /\ hw_count = 0
    /\ stopwatch = NewStopwatch
    /\ \E logging_enabled \in BOOLEAN, log_writable \in BOOLEAN, f \in ParameterFiles :
         Constructed(logging_enabled, log_writable, f, lift, status, last, unwired,
                     with_logger)
    /\ policy = NoEvaluation
    /\ robot = RobotAtRest

Next ==
    \/ \E logging_enabled \in BOOLEAN, log_writable \in BOOLEAN, f \in ParameterFiles :
         Construct(logging_enabled, log_writable, f)
    \/ \E f \in ParameterFiles : LoadParameters(f)
    \/ Dispose
    \/ \E state \in ProgramState : SetRobotState(state)
    \/ \E state \in BOOLEAN : SetLogState(state)
    \/ ReadSensors
    \/ ResetSensors
    \/ ResetAndStartTimer
    \/ Tick
    \/ EncoderMoves

Spec == Init /\ [][Next]_vars

\* ------------------------------------------- evaluating the staged policy

\* An autonomous step evaluates the policy on the thresholds the Lift holds.
EvaluatePolicy(encoderDelta, elapsedTime) ==
    /\ status = "constructed"
    /\ policy' = StagedPolicy(lift, encoderDelta, elapsedTime)
    /\ last' = Call("evaluate", "", NoFile, "returned", "None", FALSE)
    /\ UNCHANGED <<lift, stopwatch, hw_count, now, status, unwired, with_logger,
                   robot>>

\* The policy over every Lift a construction and reloads produce.
PolicyInit == Init /\ last.arg = "False"

PolicyNext ==
    \/ \E f \in ParameterFiles : LoadParameters(f)
    \/ \E encoderDelta \in PolicyInputs, elapsedTime \in PolicyInputs :
         EvaluatePolicy(encoderDelta, elapsedTime)

SpecPolicy == PolicyInit /\ [][PolicyNext]_vars

\* ------------------------------------------------------ the outer loop

\* A method or loop pass of MyRobot starts with no call made.
Entering(op) == [ robot EXCEPT !.op = op, !.calls = <<>> ]

RobotInit ==
    /\ robot.pc = "start"
    /\ robot' = [ Robot_initialize(Entering("RobotInit")) EXCEPT !.pc = "idle" ]
    /\ UNCHANGED <<liftVars, policy>>

\* The framework calls Disabled, Autonomous or OperatorControl for the mode
\* of the field; each prepares the mode and then loops.
Disabled ==
    /\ robot.pc = "idle"
    /\ robot.field = "DISABLED"
    /\ robot' = [ _disabled_init(Entering("Disabled"))
                    EXCEPT !.pc = "disabled_loop" ]
    /\ UNCHANGED <<liftVars, policy>>

Autonomous ==
    /\ robot.pc = "idle"
    /\ robot.field = "AUTONOMOUS"
    /\ robot' = [ _autonomous_init(Entering("Autonomous"))
                    EXCEPT !.pc = "autonomous_loop" ]
    /\ UNCHANGED <<liftVars, policy>>

OperatorControl ==
    /\ robot.pc = "idle"
    /\ robot.field = "TELEOP"
    /\ robot' = [ _operator_control_init(Entering("OperatorControl"))
                    EXCEPT !.pc = "teleop_loop" ]
    /\ UNCHANGED <<liftVars, policy>>

DisabledLoop ==
    /\ robot.pc = "disabled_loop"
    /\ robot.field = "DISABLED"
    /\ robot' = DisabledPass(Entering("DisabledLoop"))
    /\ UNCHANGED <<liftVars, policy>>

AutonomousLoop ==
    /\ robot.pc = "autonomous_loop"
    /\ robot.field = "AUTONOMOUS"
    /\ robot' = AutonomousPass(Entering("AutonomousLoop"))
    /\ UNCHANGED <<liftVars, policy>>

OperatorControlLoop ==
    /\ robot.pc = "teleop_loop"
    /\ robot.field = "TELEOP"
    /\ robot' = OperatorControlPass(Entering("OperatorControlLoop"))
    /\ UNCHANGED <<liftVars, policy>>

\* The loop condition fails and the method returns to the framework.
LoopEnds ==
    /\ \/ robot.pc = "disabled_loop" /\ robot.field # "DISABLED"
       \/ robot.pc = "autonomous_loop" /\ robot.field # "AUTONOMOUS"
       \/ robot.pc = "teleop_loop" /\ robot.field # "TELEOP"
    /\ robot' = [ Entering("LoopEnds") EXCEPT !.pc = "idle" ]
    /\ UNCHANGED <<liftVars, policy>>

\* The field switches mode.
FieldSwitches(mode) ==
    /\ robot.pc # "start"
    /\ mode # robot.field
    /\ robot' = [ Entering("FieldSwitches") EXCEPT !.field = mode ]
    /\ UNCHANGED <<liftVars, policy>>

\* The driver moves the controls.
DriverInput(button, bumper, left_y, right_x) ==
    /\ robot.pc # "start"
    /\ <<button, bumper, left_y, right_x>>
         # <<robot.button, robot.bumper, robot.left_y, robot.right_x>>
    /\ robot' = [ Entering("DriverInput") EXCEPT !.button = button,
                                                  !.bumper = bumper,
                                                  !.left_y = left_y,
                                                  !.right_x = right_x ]
    /\ UNCHANGED <<liftVars, policy>>

\* MyRobot runs beside a Lift built with no parameter file.
RobotSpecInit ==
    /\ Init
    /\ status = "constructed"
    /\ last.arg = "False"
    /\ ~last.file.found

RobotNext ==
    \/ RobotInit
    \/ Disabled
    \/ Autonomous
    \/ OperatorControl
    \/ DisabledLoop
    \/ AutonomousLoop
    \/ OperatorControlLoop
    \/ LoopEnds
    \/ \E mode \in FieldModes : FieldSwitches(mode)
    \/ \E button \in ButtonValues, bumper \in ButtonValues,
          left_y \in LeftYValues, right_x \in RightXValues :
         DriverInput(button, bumper, left_y, right_x)

SpecRobot == RobotSpecInit /\ [][RobotNext]_vars

\* ---------------------------------------------------------------- claims

\* Whether the threshold fields of the Lift are strictly increasing on both
\* axes.
ThresholdsOrdered(s) ==
    /\ s._encoder_threshold < s._auto_medium_encoder_threshold
    /\ s._auto_medium_encoder_threshold < s._auto_far_encoder_threshold
    /\ s._time_threshold < s._auto_medium_time_threshold
    /\ s._auto_medium_time_threshold < s._auto_far_time_threshold

\* Whether the threshold fields hold the values of file f.
ThresholdsAsRead(s, f) ==
    /\ s._encoder_threshold = f.ENCODER_THRESHOLD
    /\ s._auto_medium_encoder_threshold = f.AUTO_MEDIUM_ENCODER_THRESHOLD
    /\ s._auto_far_encoder_threshold = f.AUTO_FAR_ENCODER_THRESHOLD
    /\ s._time_threshold = f.TIME_THRESHOLD
    /\ s._auto_medium_time_threshold = f.AUTO_MEDIUM_TIME_THRESHOLD
    /\ s._auto_far_time_threshold = f.AUTO_FAR_TIME_THRESHOLD

\* dispose has been called on the running instance: only dispose clears
\* _movement_timer, and nothing but the constructor sets it.
Disposed == status = "constructed" /\ lift._movement_timer = None

\* The five object references are absent.
ReferencesAbsent(s) ==
    /\ s._log = None
    /\ s._parameters = None
    /\ s._encoder = None
    /\ s._lift_controller = None
    /\ s._movement_timer = None

C2_FlagsDescribeLastLoad ==
    (/\ status = "constructed"
     /\ last.op \in {"construct", "load_parameters"}
     /\ last.file.found) =>
        /\ lift.lift_enabled <=> MotorWired(LoadedChannels(last.file))
        /\ lift.lift_enabled <=> (lift._lift_controller # None)
        /\ lift.encoder_enabled <=> EncoderWired(LoadedChannels(last.file))
        /\ lift.encoder_enabled <=> (lift._encoder # None)

\* C3 as stated: once dispose has been called, every call of read_sensors,
\* reset_sensors, reset_and_start_timer, set_robot_state and load_parameters
\* returns without calling a method of an absent object, and read_sensors
\* and reset_sensors on the disposed encoder leave _encoder_count unchanged.
C3_CallsAfterDisposeComplete ==
    [][ (Disposed /\ last'.op \in {"read_sensors", "reset_sensors",
                                   "reset_and_start_timer", "set_robot_state",
                                   "load_parameters"}) =>
          /\ last'.outcome = "returned"
          /\ ((last'.op \in {"read_sensors", "reset_sensors"} /\ lift._encoder = None) =>
                 lift'._encoder_count = lift._encoder_count) ]_vars

\* C4: after dispose the logger, parameter store, encoder, motor controller
\* and movement timer references are all absent, and a dispose that follows
\* a dispose changes nothing: fields, stopwatch and encoder hardware are as
\* the first dispose left them.
C4_DisposeIdempotent ==
    /\ [](last.op = "dispose" => ReferencesAbsent(lift))
    /\ [][ (last.op = "dispose" /\ last'.op = "dispose") =>
             /\ lift' = lift
             /\ stopwatch' = stopwatch
             /\ hw_count' = hw_count ]_vars

\* C4 witness: a dispose that followed a dispose, on an instance that had
\* bindings and flags set, with every reference absent.
C4_Witness ==
    /\ last.op = "dispose"
    /\ last.again
    /\ lift.encoder_enabled
    /\ lift.lift_enabled
    /\ lift._log_enabled
    /\ ReferencesAbsent(lift)

C6_UnwritableLogDegrades ==
    (last.op = "construct" /\ last.arg = "True" /\ ~last.log_writable) =>
        /\ status = "constructed"
        /\ last.outcome = "returned"
        /\ lift._log = None
        /\ ~lift._log_enabled
        /\ lift._movement_timer # None
        /\ lift._parameters # None

\* C7: a Lift constructed from a file that wires no channel (every channel
\* id read is negative) has encoder_enabled and lift_enabled false and no
\* encoder or motor binding, its load returned True, and until
\* load_parameters is called again every call returns, reaches no hardware
\* and leaves _encoder_count at 0.
C7_UnwiredIsSafe ==
    (status = "constructed" /\ unwired) =>
        /\ ~lift.encoder_enabled
        /\ ~lift.lift_enabled
        /\ lift._encoder = None
        /\ lift._lift_controller = None
        /\ lift._encoder_count = 0
        /\ last.outcome = "returned"
        /\ ~last.hw
        /\ (last.op = "construct" => last.result = "True")

\* C7 witness: a reset_sensors on such a Lift, in TELEOP.
C7_Witness ==
    /\ status = "constructed"
    /\ unwired
    /\ last.op = "reset_sensors"
    /\ lift._robot_state = "TELEOP"
    /\ lift._encoder_count = 0
    /\ ~lift.encoder_enabled

\* C8 as stated: read_sensors with encoder_enabled true returns with
\* _encoder_count set to the hardware tick count; with encoder_enabled
\* false it changes nothing; no other field, nor the stopwatch or the
\* hardware, changes in either case.
C8_ReadSensorsFrame ==
    [][ last'.op = "read_sensors" =>
          /\ last'.outcome = "returned"
          /\ lift' = IF lift.encoder_enabled
                     THEN [ lift EXCEPT !._encoder_count = hw_count ]
                     ELSE lift
          /\ stopwatch' = stopwatch
          /\ hw_count' = hw_count ]_vars

\* C9 as stated: with encoder_enabled true, reset_sensors returns with the
\* hardware encoder reset and _encoder_count equal to 0, whatever the count
\* was before.
C9_ResetSensorsZeroes ==
    (last.op = "reset_sensors" /\ lift.encoder_enabled) =>
        /\ last.outcome = "returned"
        /\ hw_count = 0
        /\ lift._encoder_count = 0

\* C10: right after reset_and_start_timer the movement timer the Lift holds
\* is running with nothing elapsed, whether it was never started, running or
\* stopped with time accumulated, and also when the call repeats; the
\* elapsed time is never negative, and each tick of the clock adds one tick
\* to a running timer, so the time reported counts from the call.
C10_ResetAndStartTimerRestarts ==
    /\ []((last.op = "reset_and_start_timer" /\ lift._movement_timer # None) =>
             /\ stopwatch.running
             /\ StopwatchElapsed(stopwatch, now) = 0)
    /\ [](StopwatchElapsed(stopwatch, now) >= 0)
    /\ [][ (last'.op = "tick" /\ stopwatch.running) =>
             StopwatchElapsed(stopwatch', now') = StopwatchElapsed(stopwatch, now) + 1 ]_vars

\* C10 witness: a reset_and_start_timer that found the timer still running,
\* with time elapsed, from the reset_and_start_timer before it (no other
\* call starts the timer); the timer runs from zero.
C10_Witness ==
    /\ last.op = "reset_and_start_timer"
    /\ last.pre_running
    /\ last.pre_elapsed > 0
    /\ stopwatch.running
    /\ StopwatchElapsed(stopwatch, now) = 0

\* C11 as stated: a Lift constructed without a logger never has a logger
\* nor _log_enabled true, whatever set_log_state calls are made; for a Lift
\* constructed with a logger, _log_enabled after set_log_state(enabled)
\* equals enabled.
C11_LogStateFollowsConstruction ==
    status = "constructed" =>
        /\ (~with_logger => (lift._log = None /\ ~lift._log_enabled))
        /\ ((with_logger /\ last.op = "set_log_state") =>
               (lift._log_enabled <=> last.arg = "True"))

\* C11 amended: a Lift constructed without a logger never has a logger nor
\* _log_enabled true; a Lift constructed with one holds it until dispose;
\* and _log_enabled after set_log_state(enabled) is true exactly when
\* enabled is true and the Lift still holds a logger, so after dispose it is
\* false whatever enabled is.
C11_LogStateNeedsLogger ==
    status = "constructed" =>
        /\ (~with_logger => (lift._log = None /\ ~lift._log_enabled))
        /\ (with_logger => (lift._log # None <=> ~Disposed))
        /\ (last.op = "set_log_state" =>
               (lift._log_enabled <=> (last.arg = "True" /\ lift._log # None)))

\* C11 witness: set_log_state(True) on a Lift that was constructed with a
\* logger and has been disposed; _log_enabled is false.
C11_Witness ==
    /\ status = "constructed"
    /\ with_logger
    /\ Disposed
    /\ last.op = "set_log_state"
    /\ last.arg = "True"
    /\ ~lift._log_enabled

\* C15: the operating mode is DISABLED when the constructor returns, and no
\* call but set_robot_state (or the construction of a new Lift) changes it:
\* load_parameters, read_sensors, reset_sensors, reset_and_start_timer,
\* set_log_state and dispose leave it as it was.
C15_ModeChangesOnlyBySetRobotState ==
    /\ []((last.op = "construct" /\ status = "constructed") =>
             lift._robot_state = "DISABLED")
    /\ [][ last'.op \notin {"set_robot_state", "construct"} =>
             lift'._robot_state = lift._robot_state ]_vars

\* C15 witness: a dispose that left the mode at AUTONOMOUS.
C15_Witness ==
    /\ last.op = "dispose"
    /\ lift._robot_state = "AUTONOMOUS"

\* Whether every configuration field holds the value file f gives its key.
FieldsAsRead(s, f) ==
    /\ ThresholdsAsRead(s, f)
    /\ s._up_direction = f.UP_DIRECTION
    /\ s._down_direction = f.DOWN_DIRECTION
    /\ s._up_speed_ratio = f.UP_SPEED_RATIO
    /\ s._down_speed_ratio = f.DOWN_SPEED_RATIO
    /\ s._auto_far_speed_ratio = f.AUTO_FAR_SPEED_RATIO
    /\ s._auto_medium_speed_ratio = f.AUTO_MEDIUM_SPEED_RATIO
    /\ s._auto_near_speed_ratio = f.AUTO_NEAR_SPEED_RATIO
    /\ s._encoder_max_limit = f.ENCODER_MAX_LIMIT
    /\ s._encoder_min_limit = f.ENCODER_MIN_LIMIT

\* C16 as stated: after a construction or load_parameters that found its
\* parameter store, every configuration field holds the value read for its
\* key; in particular _up_speed_ratio and _down_speed_ratio hold the values
\* of UP_SPEED_RATIO and DOWN_SPEED_RATIO.
C16_FieldsHoldValuesRead ==
    (/\ status = "constructed"
     /\ last.op \in {"construct", "load_parameters"}
     /\ last.file.found) =>
        FieldsAsRead(lift, last.file)

\* C18 as stated: _log_enabled is true only while a logger is present, so
\* load_parameters never calls debug on an absent logger.
C18_LogEnabledImpliesLogger ==
    status = "constructed" =>
        /\ (lift._log_enabled => lift._log # None)
        /\ (last.op = "load_parameters" => last.outcome = "returned")

\* The conditions of rules 1, 2 and 3 for the evaluation recorded in policy,
\* over the thresholds the Lift holds.
FarRule ==
    \/ policy.delta >= lift._auto_far_encoder_threshold
    \/ policy.elapsed < lift._auto_far_time_threshold

MediumRule ==
    \/ policy.delta >= lift._auto_medium_encoder_threshold
    \/ policy.elapsed < lift._auto_medium_time_threshold

NearRule ==
    \/ policy.delta >= lift._encoder_threshold
    \/ policy.elapsed < lift._time_threshold

DriveCommands ==
    { i \in 1..Len(robot.calls) : robot.calls[i].f \in { "drive", "arcade_drive" } }

TeleopPass == robot'.op = "OperatorControlLoop"

SwapFlips ==
    robot'._driver_controls_swap_ratio = 0 - robot._driver_controls_swap_ratio

\* C19: the swap ratio is always 1.0 or -1.0; a pass of the teleop loop
\* negates it exactly when the swap button is pressed and differs from the
\* stored state, and stores the button's state; no other step changes it;
\* so a pass that finds the button still pressed after a pass that stored
\* it pressed does not negate it again.
C19_SwapFlipsOncePerPress ==
    /\ [](robot._driver_controls_swap_ratio \in { 100, 0 - 100 })
    /\ [][ /\ TeleopPass =>
                /\ SwapFlips <=> (robot.button = 1 /\ robot.stored # robot.button)
                /\ ~SwapFlips =>
                      robot'._driver_controls_swap_ratio
                        = robot._driver_controls_swap_ratio
                /\ robot'.stored = robot.button
           /\ ~TeleopPass =>
                robot'._driver_controls_swap_ratio
                  = robot._driver_controls_swap_ratio
           /\ (TeleopPass /\ robot.op = "OperatorControlLoop" /\ robot.button = 1) =>
                ~SwapFlips ]_vars

\* C19 witness: a pass of the teleop loop has swapped the controls on a
\* press and drives with the forward axis reversed.
C19_Witness ==
    /\ robot.op = "OperatorControlLoop"
    /\ robot._driver_controls_swap_ratio = 0 - 100
    /\ robot.button = 1
    /\ robot.stored = 1
    /\ robot.left_y = 50
    /\ \E i \in DriveCommands :
          robot.calls[i] = [ f |-> "arcade_drive", a |-> <<0 - 50, robot.right_x>> ]

\* The mode a loop of MyRobot belongs to.
LoopMode ==
    CASE robot.pc = "disabled_loop" -> "DISABLED"
      [] robot.pc = "autonomous_loop" -> "AUTONOMOUS"
      [] robot.pc = "teleop_loop" -> "TELEOP"
      [] OTHER -> None

\* C20: while MyRobot is in the loop of a mode, before its first pass and
\* after each pass, the drive train and the user interface, when present,
\* were last notified of that mode.
C20_LoopRunsInNotifiedMode ==
    LoopMode # None =>
        /\ robot._drive_train # None => robot.dt_state = LoopMode
        /\ robot._user_interface # None => robot.ui_state = LoopMode

\* C20 witness: Autonomous has read the sensors, then notified both
\* subsystems, and stands before the first pass of its loop.
C20_Witness ==
    /\ robot.pc = "autonomous_loop"
    /\ robot.op = "Autonomous"
    /\ Len(robot.calls) = 3
    /\ robot.calls[1].f = "read_sensors"
    /\ robot.calls[2] = [ f |-> "drive_train.set_robot_state", a |-> <<"AUTONOMOUS">> ]
    /\ robot.calls[3] = [ f |-> "user_interface.set_robot_state", a |-> <<"AUTONOMOUS">> ]
    /\ robot.dt_state = "AUTONOMOUS"
    /\ robot.ui_state = "AUTONOMOUS"

====
